---- MODULE Spec2Model ----
(***************************************************************************)
(* Model of the style-recommender pipeline of src/app.py (src/appp.py is   *)
(* the same pipeline without the session check).                           *)
(*                                                                         *)
(* Text is a sequence of one-character strings.  A Python value that may   *)
(* be a str, an int or None is a record [t, s, n].  A call that may raise  *)
(* yields a record [exc, val]: exc = "" for a normal return.               *)
(***************************************************************************)
EXTENDS Integers, Sequences, FiniteSets, TLC

VARIABLES
    pc,                   \* position of the running request / call
    GEMINI_API_KEY,       \* TRUE when the credential is configured
    users,                \* the registered users: username -> password
    session,              \* TRUE when 'user' is in the session
    form,                 \* request.form of the request being handled
    user_preferences,     \* recommend: the stripped preference dict
    raw_query,            \* recommend
    refined_query,        \* recommend
    image_urls,           \* recommend
    description,          \* recommend
    accessories_response, \* recommend
    prefs,                \* accessories: the parsed preferences
    outfit_desc,          \* accessories
    gender,               \* accessories
    text,                 \* accessories
    accessory_images,     \* accessories
    calls,                \* log of the helper calls of the running request
    response,             \* what the handler returned (or that it raised)
    args,                 \* arguments of a direct call of one helper
    env,                  \* what the external service answers to that call
    ret                   \* what that call returned

pvars == << pc, GEMINI_API_KEY, users, session, form, user_preferences, raw_query,
            refined_query, image_urls, description, accessories_response,
            prefs, outfit_desc, gender, text, accessory_images, calls,
            response >>
\* everything of a request but pc
pvarsRest == << GEMINI_API_KEY, users, session, form, user_preferences, raw_query,
                refined_query, image_urls, description, accessories_response,
                prefs, outfit_desc, gender, text, accessory_images, calls,
                response >>
hvars == << args, env, ret >>
vars == << pvars, hvars >>

----------------------------------------------------------------------------
(* Bounds of the model *)

\* longest free-text value of one preference field
MaxFieldLen == 2
\* largest cap handed to scrape_duckduckgo_images in a direct call
MaxImages == 2
\* most records the image-search service returns to a direct call
MaxResults == 3
\* most accessory items of a direct call of fetch_accessory_images
MaxItems == 2

----------------------------------------------------------------------------
(* Python values and results *)

PyStr(s) == [t |-> "str", s |-> s, n |-> 0]
PyInt(n) == [t |-> "int", s |-> << >>, n |-> n]
PyNone == [t |-> "none", s |-> << >>, n |-> 0]

Ok(v) == [exc |-> "", val |-> v]
Raise(e) == [exc |-> e, val |-> << >>]
IsRaise(r) == r.exc # ""

\* bool(v)
Truthy(v) ==
    CASE v.t = "str" -> v.s # << >>
      [] v.t = "int" -> v.n # 0
      [] OTHER -> FALSE

Digit(d) == << "0", "1", "2", "3", "4", "5", "6", "7", "8", "9" >>[d + 1]

RECURSIVE IntToStr(_)
IntToStr(n) ==
    IF n < 0 THEN << "-" >> \o IntToStr(0 - n)
    ELSE IF n < 10 THEN << Digit(n) >>
    ELSE IntToStr(n \div 10) \o << Digit(n % 10) >>

\* str(v), as an f-string renders v
Format(v) ==
    CASE v.t = "str" -> v.s
      [] v.t = "int" -> IntToStr(v.n)
      [] OTHER -> << "N", "o", "n", "e" >>

EmptyMap == [k \in {} |-> PyNone]
PyDict(d) == [t |-> "dict", d |-> d]
\* a parsed JSON value that is not an object (a list, a number, null)
PyNonDict == [t |-> "list", d |-> EmptyMap]

\* d.get(k, default); on a value without .get the attribute lookup raises
DictGet(obj, k, default) ==
    IF obj.t # "dict" THEN Raise("AttributeError")
    ELSE Ok(IF k \in DOMAIN obj.d THEN obj.d[k] ELSE default)

----------------------------------------------------------------------------
(* str methods *)

\* The whitespace characters of Python that have no escape in a string of
\* this module, written as the characters themselves.
\* U+000B, line tabulation
VT == ""
\* U+001C..U+001F, the file, group, record and unit separators
FS == ""
GS == ""
RS == ""
US == ""
\* U+0085, next line
NEL == ""
\* U+00A0, no-break space
NBSP == " "
\* U+1680, ogham space mark
OghamSpace == " "

\* the characters str.strip() and str.split() treat as whitespace
\* (str.isspace).  Python has 16 more, U+2000..U+200A, U+2028, U+2029,
\* U+202F, U+205F and U+3000, which a string of this module cannot hold:
\* they are not characters of the model's texts.
Whitespace ==
    { " ", "\t", "\n", "\r", "\f", VT, FS, GS, RS, US, NEL, NBSP, OghamSpace }
IsSpace(c) == c \in Whitespace
Space == << " " >>

RECURSIVE LStrip(_)
LStrip(s) ==
    IF s = << >> THEN s
    ELSE IF IsSpace(Head(s)) THEN LStrip(Tail(s)) ELSE s

RECURSIVE RStrip(_)
RStrip(s) ==
    IF s = << >> THEN s
    ELSE IF IsSpace(s[Len(s)]) THEN RStrip(SubSeq(s, 1, Len(s) - 1)) ELSE s

\* s.strip()
Strip(s) == RStrip(LStrip(s))

\* s.split(): the maximal runs of non-whitespace characters
RECURSIVE SplitFrom(_, _, _)
SplitFrom(s, cur, acc) ==
    IF s = << >> THEN (IF cur = << >> THEN acc ELSE Append(acc, cur))
    ELSE IF IsSpace(Head(s))
         THEN SplitFrom(Tail(s), << >>,
                        IF cur = << >> THEN acc ELSE Append(acc, cur))
         ELSE SplitFrom(Tail(s), Append(cur, Head(s)), acc)

Split(s) == SplitFrom(s, << >>, << >>)

\* sep.join(parts)
RECURSIVE Join(_, _)
Join(sep, parts) ==
    IF parts = << >> THEN << >>
    ELSE IF Len(parts) = 1 THEN parts[1]
    ELSE parts[1] \o sep \o Join(sep, Tail(parts))

\* xs[:n]
Take(xs, n) == SubSeq(xs, 1, IF Len(xs) < n THEN Len(xs) ELSE n)

\* s.startswith(p)
StartsWith(s, p) == Len(s) >= Len(p) /\ SubSeq(s, 1, Len(p)) = p

\* [x] * n
Repeat(x, n) == [i \in 1..n |-> x]

\* filter(None, xs)
RECURSIVE FilterTruthy(_)
FilterTruthy(xs) ==
    IF xs = << >> THEN << >>
    ELSE IF Truthy(Head(xs)) THEN << Head(xs) >> \o FilterTruthy(Tail(xs))
    ELSE FilterTruthy(Tail(xs))

----------------------------------------------------------------------------
(* construct_query *)

Fields == { "color", "gender", "type", "occasion", "style" }

ForPrefix == << "f", "o", "r", " " >>

\* the occasion phrase: f"for {prefs.get('occasion')}" if it is truthy, else ""
OccasionPhrase(occ) ==
    IF Truthy(occ) THEN PyStr(ForPrefix \o Format(occ)) ELSE PyStr(<< >>)

\* Variant of QueryParts with style and color exchanged; the order stated
\* by C7 must reject it.
QueryParts_StyleFirst(p) ==
    << DictGet(p, "style", PyNone).val,
       DictGet(p, "color", PyNone).val,
       DictGet(p, "type", PyNone).val,
       OccasionPhrase(DictGet(p, "occasion", PyNone).val),
       DictGet(p, "gender", PyNone).val >>

\* the list handed to filter(None, ...), in the source's order
QueryParts(p) ==
    << DictGet(p, "color", PyNone).val,
       DictGet(p, "style", PyNone).val,
       DictGet(p, "type", PyNone).val,
       OccasionPhrase(DictGet(p, "occasion", PyNone).val),
       DictGet(p, "gender", PyNone).val >>

construct_query(p) ==
    IF p.t # "dict" THEN Raise("AttributeError")
    ELSE LET kept == FilterTruthy(QueryParts(p)) IN
         IF \E i \in 1..Len(kept) : kept[i].t # "str"
         THEN Raise("TypeError")
         ELSE Ok(Strip(Join(Space, [i \in 1..Len(kept) |-> kept[i].s])))

----------------------------------------------------------------------------
(* The text-generation service and the three operations that call it *)

\* refine keeps at most this many whitespace-separated tokens
MaxKeywords == 8

DescriptionFallback == <<
    "A", " ", "s", "t", "y", "l", "i", "s", "h", " ", "l", "o", "o", "k", " ",
    "f", "o", "r", " ", "y", "o", "u", "r", " ", "p", "r", "e", "f", "e", "r",
    "e", "n", "c", "e", "s", "." >>

AccessoriesFallback == <<
    "S", "o", "m", "e", " ", "m", "a", "t", "c", "h", "i", "n", "g", " ", "a",
    "c", "c", "e", "s", "s", "o", "r", "i", "e", "s", " ", "t", "o", " ", "e",
    "n", "h", "a", "n", "c", "e", " ", "y", "o", "u", "r", " ", "l", "o", "o",
    "k", " ", "b", "e", "a", "u", "t", "i", "f", "u", "l", "l", "y", "!" >>

(* What model.generate_content does: it raises (transport or service error),*)
(* or returns a response with no candidates (the prompt was blocked), or a  *)
(* response whose candidate carries no text (the candidate was blocked), or *)
(* a response with text.                                                    *)
GenError == [kind |-> "error", candidates |-> 0, text |-> << >>]
GenNoCandidates == [kind |-> "no_candidates", candidates |-> 0, text |-> << >>]
GenBlocked == [kind |-> "blocked", candidates |-> 1, text |-> << >>]
GenText(t) == [kind |-> "text", candidates |-> 1, text |-> t]

\* model.generate_content(prompt)
generate_content(resp) ==
    IF resp.kind = "error" THEN Raise("Exception") ELSE Ok(resp)

\* response.text: the accessor raises when there is no candidate or the
\* candidate has no text part
ResponseText(resp) ==
    IF resp.candidates = 0 \/ resp.kind = "blocked"
    THEN Raise("ValueError")
    ELSE Ok(resp.text)

\* Variant of FirstKeywords that keeps every token; the cap stated by C2
\* must reject it.
FirstKeywords_NoCap(refined) == Join(Space, Split(refined))

\* " ".join(refined.split()[:8])
FirstKeywords(refined) == Join(Space, Take(Split(refined), MaxKeywords))

\* the body of the try block of refine_query_gemini
refine_query_gemini_try(q, resp) ==
    LET response_ == generate_content(resp) IN
    IF IsRaise(response_) THEN response_
    ELSE IF response_.val.candidates = 0 THEN Ok(q)
    ELSE LET t == ResponseText(response_.val) IN
         IF IsRaise(t) THEN t
         ELSE LET kw == FirstKeywords(Strip(t.val)) IN
              Ok(IF kw # << >> THEN kw ELSE q)

refine_query_gemini(q, resp) ==
    LET r == refine_query_gemini_try(q, resp) IN
    IF IsRaise(r) THEN Ok(q) ELSE r

\* the preference fields as the prompt of generate_description renders them:
\* prefs.get(field, 'any')
DescriptionPrompt(p) ==
    IF p.t # "dict" THEN Raise("AttributeError")
    ELSE Ok([f \in Fields |->
                Format(DictGet(p, f, PyStr(<< "a", "n", "y" >>)).val)])

\* the body of the try block of generate_description
generate_description_try(p, resp) ==
    LET prompt == DescriptionPrompt(p) IN
    IF IsRaise(prompt) THEN prompt
    ELSE LET response_ == generate_content(resp) IN
         IF IsRaise(response_) THEN response_
         ELSE IF response_.val.candidates # 0
              THEN LET t == ResponseText(response_.val) IN
                   IF IsRaise(t) THEN t ELSE Ok(Strip(t.val))
              ELSE Ok(DescriptionFallback)

generate_description(p, resp) ==
    LET r == generate_description_try(p, resp) IN
    IF IsRaise(r) THEN Ok(DescriptionFallback) ELSE r

\* the prompt of generate_accessories: outfit, gender and ', '.join(items)
AccessoriesPrompt(outfit, gen, items) ==
    [ outfit |-> outfit, gender |-> Format(gen),
      items |-> Join(<< ",", " " >>, items) ]

\* the body of the try block of generate_accessories
generate_accessories_try(outfit, gen, items, resp) ==
    LET response_ == generate_content(resp) IN
    IF IsRaise(response_) THEN response_
    ELSE LET t == ResponseText(response_.val) IN
         IF IsRaise(t) THEN t ELSE Ok(Strip(t.val))

\* Variant of generate_accessories without the except clause; C6 must
\* reject it.
generate_accessories_NoExcept(outfit, gen, items, resp) ==
    generate_accessories_try(outfit, gen, items, resp)

generate_accessories(outfit, gen, items, resp) ==
    LET r == generate_accessories_try(outfit, gen, items, resp) IN
    IF IsRaise(r) THEN Ok(AccessoriesFallback) ELSE r

----------------------------------------------------------------------------
(* The image-search service and the two operations that call it *)

\* max_images=5, the cap recommend uses
DefaultMaxImages == 5

PlaceholderImage == <<
    "h", "t", "t", "p", "s", ":", "/", "/", "v", "i", "a", ".", "p", "l", "a",
    "c", "e", "h", "o", "l", "d", "e", "r", ".", "c", "o", "m", "/", "4", "0",
    "0", "x", "5", "0", "0", ".", "p", "n", "g", "?", "t", "e", "x", "t", "=",
    "I", "m", "a", "g", "e", "+", "N", "o", "t", "+", "F", "o", "u", "n", "d" >>

get_placeholder_image == PlaceholderImage

HttpPrefix == << "h", "t", "t", "p" >>

(* What one ddgs.images(...) call does: it yields the records of `results` *)
(* in order, and with `fail` raises once they are consumed (at the call    *)
(* itself when there are none).  A record is [image |-> value], the value  *)
(* PyNone when the record has no image field.                              *)

\* isinstance(image_url, str) and image_url.startswith("http")
IsHttpString(v) == v.t = "str" /\ StartsWith(v.s, HttpPrefix)

\* the for loop of scrape_duckduckgo_images from record i on
RECURSIVE ScrapeLoop(_, _, _, _)
ScrapeLoop(outcome, i, images, max_images) ==
    IF i > Len(outcome.results)
    THEN (IF outcome.fail THEN Raise("Exception") ELSE Ok(images))
    ELSE LET image_url == outcome.results[i].image
             images2 == IF IsHttpString(image_url)
                        THEN Append(images, image_url.s)
                        ELSE images
         IN IF Len(images2) >= max_images
            THEN Ok(images2)
            ELSE ScrapeLoop(outcome, i + 1, images2, max_images)

\* the body of the try block of scrape_duckduckgo_images
scrape_duckduckgo_images_try(outcome, max_images) ==
    LET r == ScrapeLoop(outcome, 1, << >>, max_images) IN
    IF IsRaise(r) THEN r
    ELSE Ok(IF r.val # << >> THEN r.val
            ELSE Repeat(get_placeholder_image, max_images))

scrape_duckduckgo_images(outcome, max_images) ==
    LET r == scrape_duckduckgo_images_try(outcome, max_images) IN
    IF IsRaise(r) THEN Ok(Repeat(get_placeholder_image, max_images)) ELSE r

\* images[item] = image_url
MapPut(m, k, v) == [x \in DOMAIN m \cup { k } |-> IF x = k THEN v ELSE m[x]]

\* the inner for loop of fetch_accessory_images over the records of one
\* item, from record j on: the first truthy image is stored
RECURSIVE ItemLoop(_, _, _, _)
ItemLoop(outcome, j, item, images) ==
    IF j > Len(outcome.results)
    THEN (IF outcome.fail THEN [exc |-> "Exception", val |-> images]
          ELSE Ok(images))
    ELSE LET image_url == outcome.results[j].image IN
         IF Truthy(image_url)
         THEN Ok(MapPut(images, item, image_url))
         ELSE ItemLoop(outcome, j + 1, item, images)

\* the outer for loop from item i on; one try block encloses the whole loop,
\* so the first lookup that raises ends it with the map built so far
RECURSIVE FetchLoop(_, _, _, _)
FetchLoop(accessories_list, outcomes, i, images) ==
    IF i > Len(accessories_list) THEN Ok(images)
    ELSE LET r == ItemLoop(outcomes[i], 1, accessories_list[i], images) IN
         IF IsRaise(r) THEN r
         ELSE FetchLoop(accessories_list, outcomes, i + 1, r.val)

\* the except clause logs the error; `images` is returned either way
fetch_accessory_images(accessories_list, outcomes) ==
    LET r == FetchLoop(accessories_list, outcomes, 1, EmptyMap) IN
    IF IsRaise(r) THEN Ok(r.val) ELSE r

----------------------------------------------------------------------------
(* Inputs *)

\* all texts over an alphabet, up to a length
Texts(alphabet, n) == UNION { [1..k -> alphabet] : k \in 0..n }

\* each field draws its letters from its own one-letter alphabet, so that
\* the order of the fields shows in the query
FieldLetter(f) ==
    CASE f = "color" -> "c"
      [] f = "style" -> "s"
      [] f = "type" -> "t"
      [] f = "occasion" -> "o"
      [] OTHER -> "g"

Absent == [t |-> "absent", s |-> << >>, n |-> 0]

\* the string values of field f, and the key being absent
FieldValues(f) ==
    { PyStr(s) : s \in Texts({ FieldLetter(f), " " }, MaxFieldLen) }
        \cup { Absent }

FieldChoices ==
    [ color : FieldValues("color"), gender : FieldValues("gender"),
      type : FieldValues("type"), occasion : FieldValues("occasion"),
      style : FieldValues("style") ]

\* the dict holding the chosen values, without the absent keys
MkDict(c) == PyDict([k \in { f \in Fields : c[f] # Absent } |-> c[k]])

\* k distinct one-digit tokens joined by single spaces: "1 2 3 ..."
Words(k) == Join(Space, [i \in 1..k |-> IntToStr(i)])

\* texts the text-generation service may answer with
GenTexts ==
    { Words(k) : k \in 0..(MaxKeywords + 2) }
        \cup { << " " >>, << " ", "x", "\n" >>, << "x", " ", " ", "y" >>,
               << "\f", "x", "\r", "\n", "y", "\r" >>,
               << NEL, "x", VT, OghamSpace, "y", US >> }

GenResponses ==
    { GenError, GenNoCandidates, GenBlocked } \cup { GenText(t) : t \in GenTexts }

\* raw queries handed to refine_query_gemini directly
RawQueries ==
    { Words(k) : k \in 0..(MaxKeywords + 2) } \cup { << " " >>, << "c" >> }

\* preference dicts handed to generate_description directly
DescribeChoices ==
    [ color : { Absent, PyStr(<< >>), PyStr(<< "c" >>) },
      gender : { Absent, PyStr(<< >>), PyStr(<< "g" >>) },
      type : { Absent, PyStr(<< >>), PyStr(<< "t" >>) },
      occasion : { Absent, PyStr(<< >>), PyStr(<< "o" >>) },
      style : { Absent, PyStr(<< >>), PyStr(<< "s" >>) } ]

Unisex == << "u", "n", "i", "s", "e", "x" >>
Watch == << "w", "a", "t", "c", "h" >>
Belt == << "b", "e", "l", "t" >>
ItemNames == { Watch, Belt }

\* the lists of at most n accessory item names
ItemLists(n) == UNION { [1..k -> ItemNames] : k \in 0..n }

Outfits == { << >>, << "c" >>, Words(MaxKeywords + 1) }
Genders == { PyStr(<< >>), PyStr(<< "g" >>), PyStr(Unisex), PyNone }

UrlA == << "h", "t", "t", "p", ":", "/", "/", "a" >>
UrlB == << "h", "t", "t", "p", "s", ":", "/", "/", "b" >>
FtpUrl == << "f", "t", "p", ":", "/", "/", "c" >>

\* what the image field of a result record may hold
ImageFieldValues ==
    { PyStr(UrlA), PyStr(UrlB), PyStr(FtpUrl), PyStr(<< >>), PyInt(7), PyNone }

ImageRecords == { [image |-> v] : v \in ImageFieldValues }

\* the outcomes of one ddgs.images call that yields at most n records
ImageOutcomes(n) ==
    [ results : UNION { [1..k -> ImageRecords] : k \in 0..n }, fail : BOOLEAN ]

----------------------------------------------------------------------------
(* State shared by all specifications *)

NoResponse == [kind |-> "none"]

\* the names and passwords the client types into the login and register
\* forms; WrongPassword is never registered
Usernames == { << "u" >> }
RegisterPassword == << "p" >>
WrongPassword == << "q" >>

\* users = {}
NoUsers == [u \in {} |-> << >>]

LocalsInit ==
    /\ user_preferences = PyDict(EmptyMap)
    /\ raw_query = << >>
    /\ refined_query = << >>
    /\ image_urls = << >>
    /\ description = << >>
    /\ accessories_response = PyNone
    /\ prefs = PyDict(EmptyMap)
    /\ outfit_desc = << >>
    /\ gender = PyNone
    /\ text = << >>
    /\ accessory_images = EmptyMap
    /\ calls = << >>

\* the request-handling state while one helper is called directly
NoRequest ==
    /\ GEMINI_API_KEY = TRUE
    /\ users = [u \in Usernames |-> RegisterPassword]
    /\ session = TRUE
    /\ form = [route |-> "none"]
    /\ response = NoResponse
    /\ LocalsInit

NoCall ==
    /\ args = [fn |-> "none"]
    /\ env = [fn |-> "none"]
    /\ ret = Ok(<< >>)

----------------------------------------------------------------------------
(* Direct calls of construct_query *)

InitQuery ==
    /\ pc = "call"
    /\ NoRequest
    /\ \E c \in FieldChoices : args = [fn |-> "construct_query", prefs |-> MkDict(c)]
    /\ env = [fn |-> "none"]
    /\ ret = Ok(<< >>)

Call_construct_query ==
    /\ pc = "call"
    /\ args.fn = "construct_query"
    /\ ret' = construct_query(args.prefs)
    /\ pc' = "returned"
    /\ UNCHANGED << pvarsRest, args, env >>

NextQuery == Call_construct_query

SpecQuery == InitQuery /\ [][NextQuery]_vars

----------------------------------------------------------------------------
(* Direct calls of the three text-generation operations *)

InitText ==
    /\ pc = "call"
    /\ NoRequest
    /\ \/ \E q \in RawQueries :
             args = [fn |-> "refine_query_gemini", raw_query |-> q]
       \/ \E c \in DescribeChoices :
             args = [fn |-> "generate_description", prefs |-> MkDict(c)]
       \/ \E o \in Outfits, g \in Genders, l \in ItemLists(MaxItems) :
             args = [fn |-> "generate_accessories", outfit_desc |-> o,
                     gender |-> g, items |-> l]
    /\ env = [fn |-> "none"]
    /\ ret = Ok(<< >>)

Call_refine_query_gemini ==
    /\ pc = "call"
    /\ args.fn = "refine_query_gemini"
    /\ \E resp \in GenResponses :
          /\ env' = resp
          /\ ret' = refine_query_gemini(args.raw_query, resp)
    /\ pc' = "returned"
    /\ UNCHANGED << pvarsRest, args >>

Call_generate_description ==
    /\ pc = "call"
    /\ args.fn = "generate_description"
    /\ \E resp \in GenResponses :
          /\ env' = resp
          /\ ret' = generate_description(args.prefs, resp)
    /\ pc' = "returned"
    /\ UNCHANGED << pvarsRest, args >>

Call_generate_accessories ==
    /\ pc = "call"
    /\ args.fn = "generate_accessories"
    /\ \E resp \in GenResponses :
          /\ env' = resp
          /\ ret' = generate_accessories(args.outfit_desc, args.gender,
                                         args.items, resp)
    /\ pc' = "returned"
    /\ UNCHANGED << pvarsRest, args >>

NextText ==
    \/ Call_refine_query_gemini
    \/ Call_generate_description
    \/ Call_generate_accessories

SpecText == InitText /\ [][NextText]_vars

----------------------------------------------------------------------------
(* Direct calls of the two image-search operations *)

InitImages ==
    /\ pc = "call"
    /\ NoRequest
    /\ \E q \in { << >>, << "c" >> }, n \in 1..MaxImages :
          args = [fn |-> "scrape_duckduckgo_images", query |-> q,
                  max_images |-> n]
    /\ env = [fn |-> "none"]
    /\ ret = Ok(<< >>)

Call_scrape_duckduckgo_images ==
    /\ pc = "call"
    /\ args.fn = "scrape_duckduckgo_images"
    /\ \E outcome \in ImageOutcomes(MaxResults) :
          /\ env' = outcome
          /\ ret' = scrape_duckduckgo_images(outcome, args.max_images)
    /\ pc' = "returned"
    /\ UNCHANGED << pvarsRest, args >>

NextImages == Call_scrape_duckduckgo_images

SpecImages == InitImages /\ [][NextImages]_vars

\* max_results=1: the service is asked for one record per item
AccMaxResults == 1

InitAccessoryImages ==
    /\ pc = "call"
    /\ NoRequest
    /\ \E l \in ItemLists(MaxItems) :
          args = [fn |-> "fetch_accessory_images", accessories_list |-> l]
    /\ env = [fn |-> "none"]
    /\ ret = Ok(<< >>)

Call_fetch_accessory_images ==
    /\ pc = "call"
    /\ args.fn = "fetch_accessory_images"
    /\ \E outcomes \in [1..Len(args.accessories_list) ->
                           ImageOutcomes(AccMaxResults)] :
          /\ env' = outcomes
          /\ ret' = fetch_accessory_images(args.accessories_list, outcomes)
    /\ pc' = "returned"
    /\ UNCHANGED << pvarsRest, args >>

NextAccessoryImages == Call_fetch_accessory_images

SpecAccessoryImages == InitAccessoryImages /\ [][NextAccessoryImages]_vars

----------------------------------------------------------------------------
(* The request handlers *)

(* The serialized preferences of a form: absent, text that is not JSON, or *)
(* the JSON text of a value.                                               *)
NoBlob == [present |-> FALSE, valid |-> FALSE, value |-> PyDict(EmptyMap)]
BadBlob == [present |-> TRUE, valid |-> FALSE, value |-> PyDict(EmptyMap)]
JsonBlob(v) == [present |-> TRUE, valid |-> TRUE, value |-> v]

json_dumps(v) == JsonBlob(v)
json_loads(b) == IF b.valid THEN Ok(b.value) ELSE Raise("JSONDecodeError")

\* the form fields of a /recommend request
FormChoices ==
    [ color : { PyStr(<< >>), PyStr(<< " ", "c" >>) },
      gender : { Absent, PyStr(<< "\r", "\n" >>), PyStr(<< "g", NBSP >>) },
      type : { PyStr(<< >>), PyStr(<< "t" >>) },
      occasion : { PyStr(<< >>), PyStr(<< "o" >>) },
      style : { PyStr(<< >>), PyStr(<< "s" >>) } ]

\* the accessory item lists of a request
RequestItemLists ==
    { << >>, << Watch >>, << Watch, Belt >>, << Belt, Belt >> }

\* the JSON objects a client may send to /accessories
BlobChoices ==
    [ color : { Absent, PyStr(<< " " >>), PyStr(<< "c" >>) },
      gender : { Absent, PyStr(<< >>), PyStr(<< "g" >>), PyNone, PyInt(7) },
      type : { Absent, PyStr(<< "t" >>) },
      occasion : { Absent, PyStr(<< "o" >>) },
      style : { Absent, PyStr(<< "s" >>) } ]

ClientBlobs ==
    { NoBlob, BadBlob, JsonBlob(PyNonDict) }
        \cup { JsonBlob(MkDict(c)) : c \in BlobChoices }

\* what the services answer while a request is handled
RequestGenResponses ==
    { GenError, GenNoCandidates, GenBlocked, GenText(<< " " >>),
      GenText(Words(MaxKeywords + 1)) }

RequestImageOutcomes ==
    { [results |-> << >>, fail |-> TRUE],
      [results |-> << >>, fail |-> FALSE],
      [results |-> << [image |-> PyInt(7)], [image |-> PyStr(UrlA)] >>,
       fail |-> FALSE],
      [results |-> << [image |-> PyStr(UrlA)] >>, fail |-> TRUE],
      [results |-> [i \in 1..(DefaultMaxImages + 1) |->
                       [image |-> PyStr(IF i % 2 = 1 THEN UrlA ELSE UrlB)]],
       fail |-> FALSE] }

RequestItemOutcomes ==
    { [results |-> << [image |-> PyStr(UrlA)] >>, fail |-> FALSE],
      [results |-> << [image |-> PyStr(FtpUrl)] >>, fail |-> FALSE],
      [results |-> << >>, fail |-> FALSE],
      [results |-> << >>, fail |-> TRUE] }

Call(fn, a) == [fn |-> fn, a |-> a]

Redirect == [kind |-> "redirect", template |-> "login"]
ServerError(e) == [kind |-> "error", template |-> e]

Init ==
    /\ pc = "idle"
    /\ GEMINI_API_KEY \in BOOLEAN
    /\ users = NoUsers
    /\ session = FALSE
    /\ form = [route |-> "none"]
    /\ response = NoResponse
    /\ LocalsInit
    /\ NoCall

\* a fresh request: the locals of the previous one are gone
NewRequest ==
    /\ user_preferences' = PyDict(EmptyMap)
    /\ raw_query' = << >>
    /\ refined_query' = << >>
    /\ image_urls' = << >>
    /\ description' = << >>
    /\ accessories_response' = PyNone
    /\ prefs' = PyDict(EmptyMap)
    /\ outfit_desc' = << >>
    /\ gender' = PyNone
    /\ text' = << >>
    /\ accessory_images' = EmptyMap
    /\ calls' = << >>

recommendLocals == << user_preferences, raw_query, refined_query, image_urls,
                      description, accessories_response >>
accessoriesLocals == << prefs, outfit_desc, gender, text, accessory_images >>
requestVars == << GEMINI_API_KEY, users, session, form >>

\* redirect(url_for(endpoint)), with the message flashed before it
RedirectTo(endpoint, msg) ==
    [kind |-> "redirect", template |-> endpoint, flash |-> msg]
\* render_template(template), with the message flashed before it
Page(template, msg) ==
    [kind |-> "render", template |-> template, flash |-> msg]
\* request.form[key] of a key the form lacks raises BadRequestKeyError (a
\* KeyError), which leaves the handler and is answered with status 400
BadRequest == [kind |-> "abort", template |-> "BadRequestKeyError"]

NoFlash == ""

\* a form field the client left out
NoField == << "absent" >>

\* the requests a client sends to /login and /register
AuthForms ==
    [ method : { "GET", "POST" },
      username : Usernames \cup { NoField },
      password : { RegisterPassword, WrongPassword, NoField } ]

\* the username and password lookups of a POST both find their key
HasCredentials(f) == f.username # NoField /\ f.password # NoField

\* GET / : home
Home ==
    /\ pc = "idle"
    /\ form' = [route |-> "home"]
    /\ response' = IF session THEN Page("index.html", NoFlash)
                    ELSE RedirectTo("login", NoFlash)
    /\ NewRequest
    /\ pc' = "done"
    /\ UNCHANGED << GEMINI_API_KEY, users, session, hvars >>

\* GET or POST /login : login
Login ==
    /\ pc = "idle"
    /\ \E f \in AuthForms :
          /\ form' = [route |-> "login", method |-> f.method,
                      username |-> f.username, password |-> f.password]
          /\ IF f.method = "POST" /\ ~HasCredentials(f)
             THEN /\ response' = BadRequest
                  /\ UNCHANGED session
             ELSE IF /\ f.method = "POST"
                     /\ f.username \in DOMAIN users
                     /\ users[f.username] = f.password
             THEN /\ session' = TRUE
                  /\ response' = RedirectTo("home", NoFlash)
             ELSE /\ response' = Page("login.html",
                                      IF f.method = "POST"
                                      THEN "Invalid credentials" ELSE NoFlash)
                  /\ UNCHANGED session
    /\ NewRequest
    /\ pc' = "done"
    /\ UNCHANGED << GEMINI_API_KEY, users, hvars >>

\* GET or POST /register : register
Register ==
    /\ pc = "idle"
    /\ \E f \in { g \in AuthForms : g.password # WrongPassword } :
          /\ form' = [route |-> "register", method |-> f.method,
                      username |-> f.username, password |-> f.password]
          /\ IF f.method = "POST" /\ ~HasCredentials(f)
             THEN /\ response' = BadRequest
                  /\ UNCHANGED users
             ELSE IF f.method = "POST" /\ f.username \notin DOMAIN users
             THEN /\ users' = [u \in DOMAIN users \cup { f.username } |->
                                  IF u = f.username THEN f.password
                                  ELSE users[u]]
                  /\ response' = RedirectTo("login",
                         "Registration successful! Please log in.")
             ELSE /\ response' = Page("register.html",
                                      IF f.method = "POST"
                                      THEN "Username already exists"
                                      ELSE NoFlash)
                  /\ UNCHANGED users
    /\ NewRequest
    /\ pc' = "done"
    /\ UNCHANGED << GEMINI_API_KEY, session, hvars >>

\* GET /logout : logout
Logout ==
    /\ pc = "idle"
    /\ form' = [route |-> "logout"]
    /\ session' = FALSE
    /\ response' = RedirectTo("login", NoFlash)
    /\ NewRequest
    /\ pc' = "done"
    /\ UNCHANGED << GEMINI_API_KEY, users, hvars >>

\* the response has been sent: the request and its locals are gone, and the
\* application waits for the next request with its users and the client's
\* session as the handler left them
RequestDone ==
    /\ pc = "done"
    /\ form' = [route |-> "none"]
    /\ response' = NoResponse
    /\ NewRequest
    /\ pc' = "idle"
    /\ UNCHANGED << GEMINI_API_KEY, users, session, hvars >>

\* POST /recommend arrives
RecommendRequest ==
    /\ pc = "idle"
    /\ \E c \in FormChoices, l \in RequestItemLists :
          form' = [route |-> "recommend", fields |-> MkDict(c),
                   accessory_items |-> l]
    /\ pc' = "recommend"
    /\ NewRequest
    /\ response' = NoResponse
    /\ UNCHANGED << GEMINI_API_KEY, users, session, hvars >>

\* recommend: 'user' not in session
RecommendRedirect ==
    /\ pc = "recommend"
    /\ ~session
    /\ response' = Redirect
    /\ pc' = "done"
    /\ UNCHANGED << requestVars, recommendLocals, accessoriesLocals, calls,
                    hvars >>

\* request.form.get(f, '').strip() for each field
StrippedPreferences(fields) ==
    PyDict([f \in Fields |->
               PyStr(Strip(DictGet(fields, f, PyStr(<< >>)).val.s))])

\* recommend: user_preferences and raw_query
RecommendQuery ==
    /\ pc = "recommend"
    /\ session
    /\ LET up == StrippedPreferences(form.fields)
           q == construct_query(up)
       IN /\ user_preferences' = up
          /\ calls' = Append(calls, Call("construct_query", [prefs |-> up]))
          /\ IF IsRaise(q)
             THEN /\ response' = ServerError(q.exc)
                  /\ pc' = "done"
                  /\ UNCHANGED raw_query
             ELSE /\ raw_query' = q.val
                  /\ pc' = "recommend_refine"
                  /\ UNCHANGED response
    /\ UNCHANGED << requestVars, refined_query, image_urls, description,
                    accessories_response, accessoriesLocals, hvars >>

\* Variant of RecommendRefine that calls refine_query_gemini whether or not
\* the credential is set; C9 must reject it.
RecommendRefine_AlwaysRefine ==
    /\ pc = "recommend_refine"
    /\ \E resp \in RequestGenResponses :
          /\ refined_query' = refine_query_gemini(raw_query, resp).val
          /\ calls' = Append(calls, Call("refine_query_gemini",
                                         [raw_query |-> raw_query]))
    /\ pc' = "recommend_images"
    /\ UNCHANGED << requestVars, user_preferences, raw_query, image_urls,
                    description, accessories_response, accessoriesLocals,
                    response, hvars >>

\* recommend: refine_query_gemini(raw_query) if GEMINI_API_KEY else raw_query
RecommendRefine ==
    /\ pc = "recommend_refine"
    /\ IF GEMINI_API_KEY
       THEN \E resp \in RequestGenResponses :
               /\ refined_query' = refine_query_gemini(raw_query, resp).val
               /\ calls' = Append(calls, Call("refine_query_gemini",
                                              [raw_query |-> raw_query]))
       ELSE /\ refined_query' = raw_query
            /\ UNCHANGED calls
    /\ pc' = "recommend_images"
    /\ UNCHANGED << requestVars, user_preferences, raw_query, image_urls,
                    description, accessories_response, accessoriesLocals,
                    response, hvars >>

\* recommend: image_urls = scrape_duckduckgo_images(refined_query)
RecommendImages ==
    /\ pc = "recommend_images"
    /\ \E outcome \in RequestImageOutcomes :
          image_urls' = scrape_duckduckgo_images(outcome, DefaultMaxImages).val
    /\ calls' = Append(calls, Call("scrape_duckduckgo_images",
                                   [query |-> refined_query]))
    /\ pc' = "recommend_describe"
    /\ UNCHANGED << requestVars, user_preferences, raw_query, refined_query,
                    description, accessories_response, accessoriesLocals,
                    response, hvars >>

\* recommend: description = generate_description(user_preferences)
RecommendDescribe ==
    /\ pc = "recommend_describe"
    /\ \E resp \in RequestGenResponses :
          description' = generate_description(user_preferences, resp).val
    /\ calls' = Append(calls, Call("generate_description",
                                   [prompt |-> DescriptionPrompt(user_preferences).val]))
    /\ pc' = "recommend_accessories"
    /\ UNCHANGED << requestVars, user_preferences, raw_query, refined_query,
                    image_urls, accessories_response, accessoriesLocals,
                    response, hvars >>

\* recommend: the accessory text, if 'accessory_items' in request.form
RecommendAccessories ==
    /\ pc = "recommend_accessories"
    /\ IF form.accessory_items # << >>
       THEN LET g == user_preferences.d["gender"] IN
            /\ \E resp \in RequestGenResponses :
                  accessories_response' =
                      PyStr(generate_accessories(refined_query, g,
                                                 form.accessory_items, resp).val)
            /\ calls' = Append(calls, Call("generate_accessories",
                   AccessoriesPrompt(refined_query, g, form.accessory_items)))
       ELSE UNCHANGED << accessories_response, calls >>
    /\ pc' = "recommend_return"
    /\ UNCHANGED << requestVars, user_preferences, raw_query, refined_query,
                    image_urls, description, accessoriesLocals, response,
                    hvars >>

\* recommend: return render_template('recommendation.html', ...)
RecommendReturn ==
    /\ pc = "recommend_return"
    /\ response' = [kind |-> "render", template |-> "recommendation.html",
                    query |-> refined_query, image_urls |-> image_urls,
                    description |-> description,
                    preferences |-> json_dumps(user_preferences),
                    accessories_response |-> accessories_response]
    /\ pc' = "done"
    /\ UNCHANGED << requestVars, recommendLocals, accessoriesLocals, calls,
                    hvars >>

\* POST /ask-accessories from the recommendation page: ask_accessories
\* hands the serialized preferences on to the next form
AskAccessories ==
    /\ pc = "done"
    /\ response.kind = "render"
    /\ response.template = "recommendation.html"
    /\ form' = [route |-> "ask_accessories",
                preferences |-> response.preferences]
    /\ response' = [kind |-> "render", template |-> "ask_accessories.html",
                    preferences |-> response.preferences]
    /\ NewRequest
    /\ pc' = "done"
    /\ UNCHANGED << GEMINI_API_KEY, users, session, hvars >>

\* POST /accessories arrives, with whatever the client sends
AccessoriesRequest ==
    /\ pc = "idle"
    /\ \E b \in ClientBlobs, l \in RequestItemLists :
          form' = [route |-> "accessories", preferences |-> b, items |-> l]
    /\ pc' = "accessories"
    /\ NewRequest
    /\ response' = NoResponse
    /\ UNCHANGED << GEMINI_API_KEY, users, session, hvars >>

\* POST /accessories from the ask-accessories page, which carries the
\* preferences Phase 1 serialized
AccessoriesFollowUp ==
    /\ pc = "done"
    /\ response.kind = "render"
    /\ response.template = "ask_accessories.html"
    /\ \E l \in RequestItemLists :
          form' = [route |-> "accessories",
                   preferences |-> response.preferences, items |-> l]
    /\ pc' = "accessories"
    /\ NewRequest
    /\ response' = NoResponse
    /\ UNCHANGED << GEMINI_API_KEY, users, session, hvars >>

\* request.form.get('preferences', '{}')
PreferencesText(f) ==
    IF f.preferences.present THEN f.preferences ELSE JsonBlob(PyDict(EmptyMap))

\* the try/except around json.loads: a JSONDecodeError gives {}
ParsePreferences(f) ==
    LET r == json_loads(PreferencesText(f)) IN
    IF r.exc = "JSONDecodeError" THEN Ok(PyDict(EmptyMap)) ELSE r

\* Variant of GenderOf whose default is the empty string; C8 must reject it.
GenderOf_EmptyDefault(p) == DictGet(p, "gender", PyStr(<< >>))

\* prefs.get("gender", "unisex")
GenderOf(p) == DictGet(p, "gender", PyStr(Unisex))

\* accessories: prefs, outfit_desc and gender; an exception of
\* construct_query or of prefs.get leaves the handler
AccessoriesQuery ==
    /\ pc = "accessories"
    /\ LET p == ParsePreferences(form)
           q == IF IsRaise(p) THEN p ELSE construct_query(p.val)
           g == IF IsRaise(p) THEN p ELSE GenderOf(p.val)
       IN /\ prefs' = IF IsRaise(p) THEN prefs ELSE p.val
          /\ calls' = IF IsRaise(p) THEN calls
                      ELSE Append(calls, Call("construct_query",
                                              [prefs |-> p.val]))
          /\ IF IsRaise(p) \/ IsRaise(q) \/ IsRaise(g)
             THEN /\ response' = ServerError(IF IsRaise(p) THEN p.exc
                                             ELSE IF IsRaise(q) THEN q.exc
                                             ELSE g.exc)
                  /\ pc' = "done"
                  /\ UNCHANGED << outfit_desc, gender >>
             ELSE /\ outfit_desc' = q.val
                  /\ gender' = g.val
                  /\ pc' = "accessories_text"
                  /\ UNCHANGED response
    /\ UNCHANGED << requestVars, recommendLocals, text, accessory_images,
                    hvars >>

\* accessories: text = generate_accessories(outfit_desc, gender, items)
AccessoriesText ==
    /\ pc = "accessories_text"
    /\ \E resp \in RequestGenResponses :
          text' = generate_accessories(outfit_desc, gender, form.items, resp).val
    /\ calls' = Append(calls, Call("generate_accessories",
                       AccessoriesPrompt(outfit_desc, gender, form.items)))
    /\ pc' = "accessories_images"
    /\ UNCHANGED << requestVars, recommendLocals, prefs, outfit_desc, gender,
                    accessory_images, response, hvars >>

\* accessories: accessory_images = fetch_accessory_images(items)
AccessoriesImages ==
    /\ pc = "accessories_images"
    /\ \E outcomes \in [1..Len(form.items) -> RequestItemOutcomes] :
          accessory_images' = fetch_accessory_images(form.items, outcomes).val
    /\ calls' = Append(calls, Call("fetch_accessory_images",
                                   [accessories_list |-> form.items]))
    /\ pc' = "accessories_return"
    /\ UNCHANGED << requestVars, recommendLocals, prefs, outfit_desc, gender,
                    text, response, hvars >>

\* accessories: return render_template("accessories.html", ...)
AccessoriesReturn ==
    /\ pc = "accessories_return"
    /\ response' = [kind |-> "render", template |-> "accessories.html",
                    outfit |-> outfit_desc, accessories |-> text,
                    accessory_images |-> accessory_images]
    /\ pc' = "done"
    /\ UNCHANGED << requestVars, recommendLocals, accessoriesLocals, calls,
                    hvars >>

Next ==
    \/ Home
    \/ Login
    \/ Register
    \/ Logout
    \/ RequestDone
    \/ RecommendRequest
    \/ RecommendRedirect
    \/ RecommendQuery
    \/ RecommendRefine
    \/ RecommendImages
    \/ RecommendDescribe
    \/ RecommendAccessories
    \/ RecommendReturn
    \/ AskAccessories
    \/ AccessoriesRequest
    \/ AccessoriesFollowUp
    \/ AccessoriesQuery
    \/ AccessoriesText
    \/ AccessoriesImages
    \/ AccessoriesReturn

Spec == Init /\ [][Next]_vars

----------------------------------------------------------------------------
(* Properties *)

Returned(fn) == pc = "returned" /\ args.fn = fn

\* the characters of s that are not whitespace
NonSpace(s) == SelectSeq(s, LAMBDA c : ~IsSpace(c))

\* xs is the beginning of ys
IsPrefix(xs, ys) == Len(xs) <= Len(ys) /\ xs = SubSeq(ys, 1, Len(xs))

\* C1: scrape_duckduckgo_images(q, n) returns exactly n URLs, whatever the
\* image-search service answers.
C1_ExactlyMaxImages ==
    Returned("scrape_duckduckgo_images") =>
        /\ ret.exc = ""
        /\ Len(ret.val) = args.max_images

\* the text-generation service gave nothing refine can use
NoUsableText(resp) == resp.kind # "text" \/ Split(resp.text) = << >>

\* C2 as stated: for a non-empty raw query, refine_query_gemini returns a
\* non-empty string of at most 8 whitespace-separated tokens, the fallback
\* included.
C2_AtMostEightTokens ==
    (Returned("refine_query_gemini") /\ args.raw_query # << >>) =>
        /\ ret.exc = ""
        /\ ret.val # << >>
        /\ Len(Split(ret.val)) <= MaxKeywords

\* C2 as amended: for a non-empty raw query, refine_query_gemini returns a
\* non-empty string; when the service answers with text that has a token it
\* is the first 8 tokens of that text joined by single spaces, and otherwise
\* it is the raw query unchanged, however many tokens the raw query has.
C2_CappedOrRawQuery ==
    (Returned("refine_query_gemini") /\ args.raw_query # << >>) =>
        /\ ret.exc = ""
        /\ ret.val # << >>
        /\ NoUsableText(env) => ret.val = args.raw_query
        /\ ~NoUsableText(env) =>
              /\ Len(Split(ret.val)) <= MaxKeywords
              /\ IsPrefix(Split(ret.val), Split(env.text))
              /\ Len(Split(ret.val)) = MaxKeywords
                    \/ Split(ret.val) = Split(env.text)
              /\ ret.val = Join(Space, Split(ret.val))

\* the fallback of refine with a raw query of more than 8 tokens
C2_Witness ==
    /\ Returned("refine_query_gemini")
    /\ Len(Split(args.raw_query)) > MaxKeywords
    /\ env.kind = "error"
    /\ ret.val = args.raw_query

\* the lookup of one item finds an image
LookupSucceeds(outcome) ==
    \E j \in 1..Len(outcome.results) : Truthy(outcome.results[j].image)

\* C3: the map fetch_accessory_images returns has an entry for exactly the
\* items whose own lookup succeeded, whatever happened to the other items.
C3_LookupsIndependent ==
    Returned("fetch_accessory_images") =>
        /\ ret.exc = ""
        /\ DOMAIN ret.val =
              { args.accessories_list[i] :
                    i \in { k \in 1..Len(args.accessories_list) :
                               LookupSucceeds(env[k]) } }

\* C4: no error reaches the request boundary: no request ends with the
\* handler raising instead of returning a response.
C4_NoErrorAtBoundary == response.kind # "error"

\* the text-generation service failed or answered with blank text
NoText(resp) == resp.kind # "text" \/ Strip(resp.text) = << >>

\* C5: generate_description and generate_accessories never return the empty
\* string; a failure, a missing candidate and a blank answer all give the
\* operation's fixed fallback sentence.
C5_TextNeverEmpty ==
    /\ Returned("generate_description") =>
          /\ ret.val # << >>
          /\ NoText(env) => ret.val = DescriptionFallback
    /\ Returned("generate_accessories") =>
          /\ ret.val # << >>
          /\ NoText(env) => ret.val = AccessoriesFallback

\* the service raised, blocked the candidate or returned no candidate
ServiceFailed(resp) == resp.kind \in { "error", "blocked", "no_candidates" }

\* C6: none of the three text-generation operations raises, and a transport
\* or service error, a blocked candidate and a response without candidates
\* all give the operation's fallback: the raw query for refine, the fixed
\* sentence for the other two.
C6_FailureGivesFallback ==
    /\ pc = "returned" => ret.exc = ""
    /\ (Returned("refine_query_gemini") /\ ServiceFailed(env)) =>
          ret.val = args.raw_query
    /\ (Returned("generate_description") /\ ServiceFailed(env)) =>
          ret.val = DescriptionFallback
    /\ (Returned("generate_accessories") /\ ServiceFailed(env)) =>
          ret.val = AccessoriesFallback

\* generate_accessories after a response without candidates
C6_Witness ==
    /\ Returned("generate_accessories")
    /\ env.kind = "no_candidates"
    /\ ret = Ok(AccessoriesFallback)

\* the text of field f of a preference dict, "" when the key is absent
FieldText(p, f) == IF f \in DOMAIN p.d THEN p.d[f].s ELSE << >>

\* the non-whitespace characters of the query, as C7 orders them
QueryLetters(p) ==
    NonSpace(FieldText(p, "color")) \o NonSpace(FieldText(p, "style"))
        \o NonSpace(FieldText(p, "type"))
        \o (IF FieldText(p, "occasion") # << >>
            THEN << "f", "o", "r" >> \o NonSpace(FieldText(p, "occasion"))
            ELSE << >>)
        \o NonSpace(FieldText(p, "gender"))

\* no field has leading or trailing whitespace, as after Phase 1's strip
FieldsStripped(p) == \A f \in Fields : FieldText(p, f) = Strip(FieldText(p, f))

\* C7 as stated: a preference set with a non-empty field gives a non-empty
\* query and one with every field empty gives the empty query, for stripped
\* and for unstripped field values.
C7_NonEmptyFieldNonEmptyQuery ==
    Returned("construct_query") =>
        /\ ret.exc = ""
        /\ (\E f \in Fields : FieldText(args.prefs, f) # << >>)
              <=> ret.val # << >>

\* C7 as amended: construct_query is total on string-valued preference sets;
\* its result holds the fields in the order color, style, type,
\* "for <occasion>" (only when occasion is non-empty), gender, and is
\* trimmed.  The non-empty fields are joined by single spaces when no field
\* holds whitespace.  The result is empty exactly when occasion is empty and
\* every other field is empty or whitespace only: with stripped fields
\* (Phase 1) that is when every field is empty, while an unstripped
\* whitespace-only field (Phase 2) is a non-empty field that still gives the
\* empty query.
C7_OrderedTrimmedQuery ==
    Returned("construct_query") =>
        LET p == args.prefs IN
        /\ ret.exc = ""
        /\ NonSpace(ret.val) = QueryLetters(p)
        /\ ret.val = Strip(ret.val)
        /\ ret.val = << >> <=>
              /\ FieldText(p, "occasion") = << >>
              /\ \A f \in Fields : NonSpace(FieldText(p, f)) = << >>
        /\ FieldsStripped(p) =>
              (ret.val = << >> <=> \A f \in Fields : FieldText(p, f) = << >>)
        /\ (\A f \in Fields : NonSpace(FieldText(p, f)) = FieldText(p, f)) =>
              /\ ret.val = Join(Space, Split(ret.val))
              /\ Len(Split(ret.val)) =
                    Cardinality({ f \in Fields : FieldText(p, f) # << >> })
                        + (IF FieldText(p, "occasion") # << >> THEN 1 ELSE 0)

\* an unstripped preference set with a whitespace-only color and a gender:
\* the query is the gender alone
C7_Witness ==
    /\ Returned("construct_query")
    /\ FieldText(args.prefs, "color") = << " " >>
    /\ FieldText(args.prefs, "gender") = << "g" >>
    /\ FieldText(args.prefs, "occasion") = << >>
    /\ ret = Ok(<< "g" >>)

\* the request is a /accessories request whose preferences are missing or
\* are not JSON
BlobUnusable ==
    /\ form.route = "accessories"
    /\ ~form.preferences.present \/ ~form.preferences.valid

\* the calls of helper fn logged so far
CallsOf(fn) == { i \in 1..Len(calls) : calls[i].fn = fn }

\* C8: in Phase 2 a missing or unparseable preferences blob is replaced by
\* the empty preference set and the request does not fail: the outfit
\* description is the empty query, the gender handed to
\* generate_accessories is "unisex", and the accessory text and the image
\* lookups both run.
C8_UnusableBlobGivesEmptyPreferences ==
    BlobUnusable =>
        /\ response.kind # "error"
        /\ pc \in { "accessories_text", "accessories_images",
                    "accessories_return", "done" } =>
              /\ prefs = PyDict(EmptyMap)
              /\ outfit_desc = << >>
              /\ gender = PyStr(Unisex)
        /\ pc \in { "accessories_return", "done" } =>
              /\ \E i \in CallsOf("generate_accessories") :
                    /\ calls[i].a.outfit = << >>
                    /\ calls[i].a.gender = Unisex
              /\ CallsOf("fetch_accessory_images") # {}
        /\ pc = "done" =>
              /\ response.kind = "render"
              /\ response.outfit = << >>

\* a /accessories request with an unparseable blob and two items, answered
C8_Witness ==
    /\ BlobUnusable
    /\ form.preferences.present
    /\ Len(form.items) = 2
    /\ pc = "done"
    /\ response.kind = "render"
    /\ gender = PyStr(Unisex)

\* the request is a /recommend request that passed the login check
InRecommend == form.route = "recommend" /\ pc # "recommend" /\ session

\* C9: without the credential Phase 1 makes no refinement call, and the raw
\* query is the refined query, the query of the image search, the outfit
\* description handed to generate_accessories and the query of the response.
C9_NoCredentialNoRefinement ==
    (InRecommend /\ ~GEMINI_API_KEY) =>
        /\ CallsOf("refine_query_gemini") = {}
        /\ pc \notin { "recommend_refine" } => refined_query = raw_query
        /\ \A i \in CallsOf("scrape_duckduckgo_images") :
              calls[i].a.query = raw_query
        /\ \A i \in CallsOf("generate_accessories") :
              calls[i].a.outfit = raw_query
        /\ pc = "done" =>
              /\ response.kind = "render"
              /\ response.query = raw_query
              /\ CallsOf("scrape_duckduckgo_images") # {}
              /\ form.accessory_items # << >> =>
                    CallsOf("generate_accessories") # {}

\* a /recommend request with accessory items and a non-empty raw query,
\* answered without the credential
C9_Witness ==
    /\ InRecommend
    /\ ~GEMINI_API_KEY
    /\ pc = "done"
    /\ raw_query # << >>
    /\ form.accessory_items # << >>
    /\ response.kind = "render"
    /\ response.query = raw_query

\* C10: every value of the map fetch_accessory_images returns is a string
\* that begins with "http".
C10_MapValuesAreUrls ==
    Returned("fetch_accessory_images") =>
        \A k \in DOMAIN ret.val : IsHttpString(ret.val[k])

\* the preference set p carries no gender: the key is missing or its value
\* is the empty string
NoGender(p) ==
    /\ p.t = "dict"
    /\ "gender" \notin DOMAIN p.d \/ p.d["gender"] = PyStr(<< >>)

\* the preference set of the request being handled
RequestPreferences ==
    IF form.route = "recommend" THEN user_preferences ELSE prefs

\* C11: whenever the preference set carries no gender, the gender handed to
\* generate_accessories is "unisex", in a /recommend request with accessory
\* items and in a /accessories request, the follow-up that carries the
\* preferences Phase 1 serialized included.
C11_NoGenderGivesUnisex ==
    (form.route \in { "recommend", "accessories" }
        /\ NoGender(RequestPreferences)) =>
        \A i \in CallsOf("generate_accessories") :
            calls[i].a.gender = Unisex

\* C12: the prompt of generate_description shows the word "any" for every
\* preference field the user left unset, which Phase 1 stores as the empty
\* string.
C12_UnsetFieldRendersAny ==
    form.route = "recommend" =>
        \A i \in CallsOf("generate_description") :
            \A f \in Fields :
                user_preferences.d[f] = PyStr(<< >>) =>
                    calls[i].a.prompt[f] = << "a", "n", "y" >>

====
